---- MODULE Spec2Model ----
(***************************************************************************)
(* Model of the variant annotation tool: the rate limited, asynchronous    *)
(* Ensembl VEP client (ensembl_api_client.py) and the orchestrator that    *)
(* fans one annotation task out per variant (annotate_variants.py).        *)
(*                                                                         *)
(* Time is discrete.  The wall clock itself is not stored; what the code   *)
(* reads from it is: the time elapsed since self.last_req (saturating at   *)
(* one second, all the code distinguishes) and the time a sleeping task    *)
(* still has to wait.  Tick lets one clock tick pass.                      *)
(***************************************************************************)
EXTENDS Integers, Sequences, FiniteSets, TLC

(***************************************************************************)
(* Bounds of the model.                                                    *)
(***************************************************************************)
\* longest input sequence (number of variants yielded by the reader)
MaxN == 2
\* largest ceiling EnsemblApiClient is constructed with
MaxCeiling == 1
\* clock ticks per second
TicksPerSec == 1
\* largest Retry-After the server sends, in ticks
MaxRetryAfter == 1
\* 429 responses with a usable Retry-After the server sends during a run
Max429 == 2

(***************************************************************************)
(* Python / JSON values.  A str is a tuple of tokens, so that string       *)
(* formatting is concatenation.                                            *)
(***************************************************************************)
JNull == [t |-> "null", v |-> <<>>]
JStr(s) == [t |-> "str", v |-> <<s>>]
JNum(s) == [t |-> "num", v |-> <<s>>]
JList(s) == [t |-> "list", v |-> s]
JDict(f) == [t |-> "dict", v |-> f]
EmptyDict == JDict([k \in {} |-> JNull])

\* the outcome of evaluating a Python expression: a value or an exception
Ok(x) == [exc |-> "none", val |-> x]
Exc(e) == [exc |-> e, val |-> JNull]

\* obj[key] for a str key
GetItem(obj, key) ==
    IF obj.t = "dict"
    THEN IF key \in DOMAIN obj.v THEN Ok(obj.v[key]) ELSE Exc("KeyError")
    ELSE Exc("TypeError")

\* obj[i] for an int index (negative counts from the end)
GetIndex(obj, i) ==
    CASE obj.t = "list" ->
            LET n == Len(obj.v)
                j == IF i >= 0 THEN i + 1 ELSE n + i + 1
            IN  IF j >= 1 /\ j <= n THEN Ok(obj.v[j]) ELSE Exc("IndexError")
      [] obj.t = "str" ->
            LET n == Len(obj.v)
                j == IF i >= 0 THEN i + 1 ELSE n + i + 1
            IN  IF j >= 1 /\ j <= n THEN Ok(JStr(obj.v[j])) ELSE Exc("IndexError")
      [] obj.t = "dict" -> Exc("KeyError")
      [] OTHER -> Exc("TypeError")

\* obj.get(key)
DictGet(obj, key) ==
    IF obj.t = "dict"
    THEN IF key \in DOMAIN obj.v THEN Ok(obj.v[key]) ELSE Ok(JNull)
    ELSE Exc("AttributeError")

\* r[key] / r[i] applied to the outcome r of a previous subscript
ThenItem(r, key) == IF r.exc = "none" THEN GetItem(r.val, key) ELSE r
ThenIndex(r, i) == IF r.exc = "none" THEN GetIndex(r.val, i) ELSE r

\* an update that keeps the old value where the new one is null (C8 rejects it)
DictUpdateKeep(d, u) ==
    [k \in DOMAIN d \cup DOMAIN u |->
        IF k \in DOMAIN u /\ (k \notin DOMAIN d \/ u[k] # JNull)
        THEN u[k] ELSE d[k]]

\* dict.update on the mapping held by a variant
DictUpdate(d, u) ==
    [k \in DOMAIN d \cup DOMAIN u |-> IF k \in DOMAIN u THEN u[k] ELSE d[k]]

\* the key a str value is used as: allele strings are a single token
StrKey(s) == s.v[1]

AnnotationFields ==
    {"gene_id", "gene_symbol", "biotype", "impact",
     "most_severe_consequence", "minor_allele_frequency"}


(***************************************************************************)
(* VcfReader.__iter__: the mapping yielded for one ALT allele of a record. *)
(***************************************************************************)
Hgvs(chrom, pos, ref, alt) ==
    [t |-> "str", v |-> <<chrom, ":g.", pos, ref, ">", alt>>]

VariantInfo(chrom, pos, ref, alt, coverage) ==
    DictUpdate([chrom |-> JStr(chrom), pos |-> JNum(pos), ref |-> JStr(ref),
                alt |-> JStr(alt), hgvs |-> Hgvs(chrom, pos, ref, alt)],
               coverage)

\* get_coverage_info: the read counts of the sample, or {} when it has none
Coverage(nr, nv, pct) ==
    [num_reads |-> JNum(nr), variant_reads |-> JNum(nv),
     variant_percentage |-> JNum(pct)]
NoCoverage == [k \in {} |-> JNull]

(***************************************************************************)
(* EnsemblApiClient.update_variant_info, after the REST call returned      *)
(* vep_info.                                                               *)
(***************************************************************************)
\* a lookup that absorbs the missing key alone (C9 rejects it)
TranscriptConsequencesKeyOnly(vep_info) ==
    LET r == ThenIndex(GetItem(vep_info, "transcript_consequences"), 0)
    IN  IF r.exc = "KeyError" THEN Ok(EmptyDict) ELSE r


TranscriptConsequences(vep_info) ==
    LET r == ThenIndex(GetItem(vep_info, "transcript_consequences"), 0)
    IN  IF r.exc \in {"IndexError", "KeyError"} THEN Ok(EmptyDict) ELSE r

MinorAlleleFrequency(variant, vep_info) ==
    LET f == ThenItem(ThenIndex(GetItem(vep_info, "colocated_variants"), -1),
                      "frequencies")
        r == IF f.exc # "none" THEN f
             ELSE IF "alt" \notin DOMAIN variant THEN Exc("KeyError")
             ELSE ThenItem(GetItem(f.val, StrKey(variant["alt"])), "af")
    IN  IF r.exc \in {"IndexError", "KeyError"} THEN Ok(JNull) ELSE r

\* a merge that also replaces hgvs by the identifier of the response (C19
\* rejects it)
ExtractedWithId(tc, vep_info, maf) ==
    [gene_id |-> DictGet(tc, "gene_id").val,
     gene_symbol |-> DictGet(tc, "gene_symbol").val,
     biotype |-> DictGet(tc, "biotype").val,
     impact |-> DictGet(tc, "impact").val,
     most_severe_consequence |-> DictGet(vep_info, "most_severe_consequence").val,
     minor_allele_frequency |-> maf,
     hgvs |-> DictGet(vep_info, "id").val]

\* the argument of variant.update(...)
Extracted(tc, vep_info, maf) ==
    [gene_id |-> DictGet(tc, "gene_id").val,
     gene_symbol |-> DictGet(tc, "gene_symbol").val,
     biotype |-> DictGet(tc, "biotype").val,
     impact |-> DictGet(tc, "impact").val,
     most_severe_consequence |-> DictGet(vep_info, "most_severe_consequence").val,
     minor_allele_frequency |-> maf]

\* lines 132-141, or the exception that ended the call before: the variant
\* afterwards, or the exception raised (the variant is then left as it was)
Merge(variant, vep_info, tc, maf) ==
    CASE tc.exc # "none" -> [exc |-> tc.exc, variant |-> variant]
      [] maf.exc # "none" -> [exc |-> maf.exc, variant |-> variant]
      [] DictGet(tc.val, "gene_id").exc # "none" ->
            [exc |-> "AttributeError", variant |-> variant]
      [] DictGet(vep_info, "most_severe_consequence").exc # "none" ->
            [exc |-> "AttributeError", variant |-> variant]
      [] OTHER ->
            [exc |-> "none",
             variant |-> DictUpdate(variant, Extracted(tc.val, vep_info, maf.val))]

\* what update_variant_info does to the variant once vep_info is there
MergeAnnotations(variant, vep_info) ==
    Merge(variant, vep_info, TranscriptConsequences(vep_info),
          MinorAlleleFrequency(variant, vep_info))

(***************************************************************************)
(* EnsemblApiClient.perform_rest_action: what it does with the outcome of  *)
(* session.get.                                                            *)
(***************************************************************************)
Return(x) == [act |-> "return", val |-> x, delay |-> 0, exc |-> "none"]
Retry(d) == [act |-> "retry", val |-> JNull, delay |-> d, exc |-> "none"]
Raise(e) == [act |-> "raise", val |-> JNull, delay |-> 0, exc |-> e]

\* a retry that does not wait (C4 rejects it)
SleepNone(hdr) == 0

\* line 73: float(retry), the time asyncio.sleep is asked for
SleepTicks(hdr) == hdr.secs

\* a client that also retries after a server error (C7 rejects it)
RestOutcomeRetry5xx(o) ==
    CASE o.kind = "transport" -> Return(EmptyDict)
      [] o.kind = "http" /\ o.status = 429 ->
            IF o.retry_after.present
            THEN IF o.retry_after.numeric
                 THEN Retry(o.retry_after.secs)
                 ELSE Raise("ValueError")
            ELSE Return(EmptyDict)
      [] o.kind = "http" /\ o.status >= 500 -> Retry(0)
      [] o.kind = "http" /\ o.status >= 400 -> Return(EmptyDict)
      [] OTHER ->
            IF ~o.wellformed THEN Return(EmptyDict)
            ELSE LET r == GetIndex(o.body, 0)
                 IN  IF r.exc = "none" THEN Return(r.val) ELSE Return(EmptyDict)


RestOutcome(o) ==
    CASE o.kind = "transport" -> Return(EmptyDict)
      [] o.kind = "http" /\ o.status = 429 ->
            IF o.retry_after.present
            THEN IF o.retry_after.numeric
                 THEN Retry(SleepTicks(o.retry_after))
                 ELSE Raise("ValueError")
            ELSE Return(EmptyDict)
      [] o.kind = "http" /\ o.status = 400 -> Return(EmptyDict)
      [] o.kind = "http" /\ o.status > 400 /\ o.status # 429 -> Return(EmptyDict)
      [] OTHER ->
            IF ~o.wellformed THEN Return(EmptyDict)
            ELSE LET r == GetIndex(o.body, 0)
                 IN  IF r.exc = "none" THEN Return(r.val) ELSE Return(EmptyDict)

\* endpoint and params update_variant_info passes, and the url built from them
Endpoint(variant) == <<"/vep/human/hgvs/">> \o variant["hgvs"].v
Params == <<"pick", "1">>
CallArgs(variant) == [endpoint |-> Endpoint(variant), params |-> Params]
\* the arguments of the recursive call after a 429
RetryArgs(args) == [endpoint |-> args.endpoint, params |-> args.params]
UrlEncode(params) == <<params[1], "=", params[2]>>
Url(server, endpoint, params) ==
    IF params # <<>> THEN server \o endpoint \o <<"?">> \o UrlEncode(params)
    ELSE server \o endpoint
Server == <<"https://grch37.rest.ensembl.org">>


(***************************************************************************)
(* Inputs: the variants the reader yields, and the answers of the server.  *)
(***************************************************************************)
SampleVariants ==
    << VariantInfo("1", "100", "A", "T", Coverage("10", "5", "50.0")),
       VariantInfo("1", "200", "C", "G", NoCoverage) >>

\* a variant as a previous call of update_variant_info left it
Annotated(variant) ==
    DictUpdate(variant,
               [gene_id |-> JStr("OLD"), gene_symbol |-> JStr("OLDSYM"),
                biotype |-> JStr("old_biotype"), impact |-> JStr("LOW"),
                most_severe_consequence |-> JStr("old_consequence"),
                minor_allele_frequency |-> JNum("0.9")])

TcFull ==
    JDict([gene_id |-> JStr("G1"), gene_symbol |-> JStr("GENE1"),
           biotype |-> JStr("protein_coding"), impact |-> JStr("MODERATE")])
TcPartial == JDict([gene_id |-> JStr("G2")])
Af(x) == JDict([af |-> JNum(x)])
FreqT == JDict([frequencies |-> JDict([T |-> Af("0.05")])])
FreqG == JDict([frequencies |-> JDict([G |-> Af("0.25")])])
FreqNoAf == JDict([frequencies |-> JDict([T |-> EmptyDict, G |-> EmptyDict])])
Msc == JStr("missense_variant")

\* bodies of a 200 response, as response.json() parses them
Bodies ==
    << \* 1: Scenario A of the specification: everything present (allele T)
       JList(<<JDict([transcript_consequences |-> JList(<<TcFull>>),
                      most_severe_consequence |-> Msc,
                      colocated_variants |-> JList(<<FreqT>>)])>>),
       \* 2: an object without any of the keys
       JList(<<EmptyDict>>),
       \* 3: both arrays empty
       JList(<<JDict([transcript_consequences |-> JList(<<>>),
                      most_severe_consequence |-> Msc,
                      colocated_variants |-> JList(<<>>)])>>),
       \* 4: transcript_consequences missing, frequency for allele G
       JList(<<JDict([most_severe_consequence |-> Msc,
                      colocated_variants |-> JList(<<FreqT, FreqG>>)])>>),
       \* 5: colocated_variants missing, a consequence with gene_id alone
       JList(<<JDict([transcript_consequences |-> JList(<<TcPartial, TcFull>>),
                      most_severe_consequence |-> Msc])>>),
       \* 6: the allele has no af; most_severe_consequence missing
       JList(<<JDict([transcript_consequences |-> JList(<<TcFull>>),
                      colocated_variants |-> JList(<<FreqNoAf>>)])>>),
       \* 7: the last colocated variant has no frequencies
       JList(<<JDict([transcript_consequences |-> JList(<<TcFull>>),
                      most_severe_consequence |-> Msc,
                      colocated_variants |-> JList(<<FreqT, EmptyDict>>)])>>),
       \* 8: an empty array
       JList(<<>>),
       \* 9: an object instead of an array
       JDict([error |-> JStr("unexpected")]),
       \* 10: an array holding null
       JList(<<JNull>>),
       \* 11: transcript_consequences is null
       JList(<<JDict([transcript_consequences |-> JNull,
                      most_severe_consequence |-> Msc])>>),
       \* 12: transcript_consequences holds a string
       JList(<<JDict([transcript_consequences |-> JList(<<JStr("ENSG")>>)])>>),
       \* 13: frequencies is null
       JList(<<JDict([colocated_variants |->
                        JList(<<JDict([frequencies |-> JNull])>>)])>>) >>

NoHeader == [present |-> FALSE, numeric |-> FALSE, secs |-> 0]
Seconds(d) == [present |-> TRUE, numeric |-> TRUE, secs |-> d]
HttpDate == [present |-> TRUE, numeric |-> FALSE, secs |-> 0]

Http(status, hdr) ==
    [kind |-> "http", status |-> status, retry_after |-> hdr,
     wellformed |-> FALSE, body |-> JNull]
Success(i) ==
    [kind |-> "http", status |-> 200, retry_after |-> NoHeader,
     wellformed |-> TRUE, body |-> Bodies[i]]
\* a 200 whose body is not JSON
Garbled == Http(200, NoHeader)
TransportFailure ==
    [kind |-> "transport", status |-> 0, retry_after |-> NoHeader,
     wellformed |-> FALSE, body |-> JNull]

\* 429 with Retry-After: d, for every d up to MaxRetryAfter ticks
Throttled == [d \in 0 .. MaxRetryAfter |-> Http(429, Seconds(d))]

\* every answer a request can get
AllOutcomes ==
    [i \in 1 .. Len(Bodies) |-> Success(i)]
    \o << Garbled, TransportFailure, Http(400, NoHeader), Http(404, NoHeader),
          Http(500, NoHeader), Http(429, NoHeader), Http(429, HttpDate) >>

\* the answers used when several tasks run: one of each class
BatchOutcomes == << Success(1), Http(400, NoHeader), Http(429, HttpDate) >>


(***************************************************************************)
(* State.                                                                  *)
(***************************************************************************)
VARIABLES
    input,               \* the variants the reader yields, in file order
    reqs_per_sec,        \* EnsemblApiClient.reqs_per_sec
    req_count,           \* EnsemblApiClient.req_count
    last_req_age,        \* time.time() - EnsemblApiClient.last_req, in ticks,
                         \* saturating at TicksPerSec (one second or more)
    lock_holder,         \* the task holding EnsemblApiClient.lock, 0 if free
    waiters,             \* the tasks waiting for the lock, first come first
    task,                \* per task: where its coroutine is, and its locals
    window,              \* window[a]: admissions that happened a ticks ago,
                         \* for a below TicksPerSec
    done_queue,          \* finished tasks as_completed has not handed out yet
    annotated_variants,  \* the list process_variants builds
    collected,           \* the task each entry of annotated_variants came from
    completion,          \* the tasks that finished, in the order they did
    orch,                \* where process_variants is
    reader,              \* what the input file does: "ok", "unopenable"
                         \* (vcf.Reader raises) or "broken" (it raises while
                         \* it is iterated)
    main_pc,             \* where main is: "start", "run" (in asyncio.run),
                         \* "exited"
    exit_status,         \* the status the process exited with, -1 before
    tsv                  \* the output file: "none", "written", "partial"
                         \* (the write failed after the header), "failed"

vars ==
    << input, reqs_per_sec, req_count, last_req_age, lock_holder, waiters, task,
       window, done_queue, annotated_variants, collected, completion, orch,
       reader, main_pc, exit_status, tsv >>

limiter == << req_count, last_req_age, lock_holder, waiters, window >>
batch == << done_queue, annotated_variants, collected, completion, orch >>
process == << reader, main_pc, exit_status, tsv >>

Tasks == DOMAIN task

NoOutcome ==
    [kind |-> "none", status |-> 0, retry_after |-> NoHeader,
     wellformed |-> FALSE, body |-> JNull]

\* the coroutine update_variant_info(session, variant), not yet created
NewTask(variant) ==
    [pc |-> "none",            \* none, created, lock_wait, rl_sleep, await,
                               \* retry_sleep, done, raised, cancelled
     variant |-> variant,      \* the mapping the task was given
     timer |-> 0,              \* ticks left of the asyncio.sleep it is in
     args |-> <<>>,            \* endpoint and params of perform_rest_action
     url |-> <<>>,             \* url of the request it sent last
     response |-> NoOutcome,   \* the last answer it got
     error |-> "none",         \* the exception it raised
     sent |-> 0,               \* requests sent
     admitted |-> 0,           \* returns of _apply_rate_limit
     n429 |-> 0,               \* 429 answers it got
     throttled |-> <<>>,       \* url of the request the last 429 answered
     updates |-> 0,            \* executions of variant.update (line 132)
     retry_after |-> 0,        \* the Retry-After it last slept for, in ticks
     waited |-> 0]             \* ticks from that 429 to the request that
                               \* followed it, counted up to retry_after

\* main at position pc, with an input file that behaves as kind
MainAt(pc, kind) ==
    /\ reader = kind
    /\ main_pc = pc
    /\ exit_status = -1
    /\ tsv = "none"

\* the client and the batch before process_variants runs on records: the
\* client has admitted count requests since the reset that is age ticks old
ClientWith(records, ceiling, count, age) ==
    /\ input = records
    /\ reqs_per_sec = ceiling
    /\ req_count = count
    /\ last_req_age = age
    /\ lock_holder = 0
    /\ waiters = <<>>
    /\ task = [i \in DOMAIN records |-> NewTask(records[i])]
    /\ window = [a \in 0 .. TicksPerSec - 1 |-> 0]
    /\ done_queue = <<>>
    /\ annotated_variants = <<>>
    /\ collected = <<>>
    /\ completion = <<>>
    /\ orch = "init"

\* process_variants about to run on records, called by main on a readable file
InitWith(records, ceiling, count, age) ==
    /\ ClientWith(records, ceiling, count, age)
    /\ MainAt("run", "ok")

\* the i-th variant of the input file: the samples, over and over
Record(i) == SampleVariants[((i - 1) % Len(SampleVariants)) + 1]

Init ==
    \E n \in 0 .. MaxN :
        \E ceiling \in 1 .. MaxCeiling :
            InitWith([i \in 1 .. n |-> Record(i)], ceiling, 0, TicksPerSec)

\* counters of the model stop at this value
MaxCount == Max429 + 1
Bump(c) == IF c < MaxCount THEN c + 1 ELSE c
Min(a, b) == IF a < b THEN a ELSE b

(***************************************************************************)
(* The clock.                                                              *)
(***************************************************************************)
Tick ==
    /\ last_req_age' = Min(last_req_age + 1, TicksPerSec)
    /\ window' = [a \in 0 .. TicksPerSec - 1 |-> IF a = 0 THEN 0 ELSE window[a - 1]]
    /\ task' = [t \in Tasks |->
                  [task[t] EXCEPT
                     !.timer = IF @ > 0 THEN @ - 1 ELSE 0,
                     !.waited = IF task[t].pc \in {"retry_sleep", "lock_wait",
                                                   "rl_sleep"}
                                THEN Min(@ + 1, task[t].retry_after) ELSE @]]
    /\ UNCHANGED << input, reqs_per_sec, process, req_count, lock_holder, waiters, batch >>

(***************************************************************************)
(* EnsemblApiClient._apply_rate_limit.                                     *)
(***************************************************************************)
\* an admission that records the reset but keeps the counter (C20 rejects it)
AdmitNoReset(t, w, reset, a) ==
    /\ req_count' = req_count + 1
    /\ last_req_age' = IF reset THEN 0 ELSE last_req_age
    /\ lock_holder' = 0
    /\ waiters' = w
    /\ window' = [window EXCEPT ![0] = @ + 1]
    /\ task' = [task EXCEPT ![t].pc = "await",
                            ![t].admitted = Bump(@),
                            ![t].args = a,
                            ![t].url = Url(Server, a.endpoint, a.params),
                            ![t].sent = Bump(@)]

\* lines 93-95 and the release of the lock: task t is admitted, and back in
\* perform_rest_action (a is its endpoint and params) it sends the request of
\* line 64 without being suspended in between
Admit(t, w, reset, a) ==
    /\ req_count' = IF reset THEN 1 ELSE req_count + 1
    /\ last_req_age' = IF reset THEN 0 ELSE last_req_age
    /\ lock_holder' = 0
    /\ waiters' = w
    /\ window' = [window EXCEPT ![0] = @ + 1]
    /\ task' = [task EXCEPT ![t].pc = "await",
                            ![t].admitted = Bump(@),
                            ![t].args = a,
                            ![t].url = Url(Server, a.endpoint, a.params),
                            ![t].sent = Bump(@)]

\* a limiter that resets without waiting for the window to end (C15 rejects it)
RateLimitNoSleep(t, w, a) ==
    IF req_count >= reqs_per_sec THEN Admit(t, w, TRUE, a) ELSE Admit(t, w, FALSE, a)

\* lines 89-95, entered by task t with the lock; w is the queue it leaves
RateLimit(t, w, a) ==
    IF req_count >= reqs_per_sec
    THEN IF last_req_age < TicksPerSec
         THEN /\ lock_holder' = t
              /\ waiters' = w
              /\ task' = [task EXCEPT ![t].pc = "rl_sleep",
                                      ![t].timer = TicksPerSec - last_req_age,
                                      ![t].args = a]
              /\ UNCHANGED << req_count, last_req_age, window >>
         ELSE Admit(t, w, TRUE, a)
    ELSE Admit(t, w, FALSE, a)

\* a limiter entered without its lock (C14 rejects it)
ApplyRateLimitUnlocked(t, a) == RateLimit(t, waiters, a)

\* line 88: asyncio.Lock.acquire, first come first served
ApplyRateLimit(t, a) ==
    IF lock_holder = 0 /\ waiters = <<>>
    THEN RateLimit(t, waiters, a)
    ELSE /\ waiters' = Append(waiters, t)
         /\ task' = [task EXCEPT ![t].pc = "lock_wait", ![t].args = a]
         /\ UNCHANGED << req_count, last_req_age, lock_holder, window >>

\* a task is started: update_variant_info up to its first suspension
Start(t) ==
    /\ task[t].pc = "created"
    /\ ApplyRateLimit(t, CallArgs(task[t].variant))
    /\ UNCHANGED << input, reqs_per_sec, process, batch >>

\* Every task was scheduled by as_completed before the event loop ran again:
\* the loop runs the first step of each before it looks at timers or sockets.
AllStarted == \A t \in Tasks : task[t].pc # "created"

\* the lock is handed to the first waiter
LockGranted(t) ==
    /\ AllStarted
    /\ task[t].pc = "lock_wait"
    /\ lock_holder = 0
    /\ waiters # <<>> /\ Head(waiters) = t
    /\ RateLimit(t, Tail(waiters), task[t].args)
    /\ UNCHANGED << input, reqs_per_sec, process, batch >>

\* line 92 returns: the window is over
WakeRateLimit(t) ==
    /\ AllStarted
    /\ task[t].pc = "rl_sleep"
    /\ task[t].timer = 0
    /\ Admit(t, waiters, TRUE, task[t].args)
    /\ UNCHANGED << input, reqs_per_sec, process, batch >>


(***************************************************************************)
(* EnsemblApiClient.perform_rest_action and update_variant_info.           *)
(***************************************************************************)
\* the 429 answers counted once o has arrived
Count429(n, o) == IF o.status = 429 THEN Bump(n) ELSE n

\* a retry whose result is dropped on the way back (C5 rejects it)
UnwindDropped(n, val) == IF n > 0 THEN EmptyDict ELSE val

\* line 74: what perform_rest_action returns when the call it made for its
\* n-th retry returned val
Unwind(n, val) == val

\* task t finishes with the exception exc
Raised(t, o, exc) ==
    /\ task' = [task EXCEPT ![t].pc = "raised", ![t].error = exc,
                            ![t].response = o,
                            ![t].n429 = Count429(@, o),
                            ![t].retry_after = 0, ![t].waited = 0]
    /\ done_queue' = Append(done_queue, t)
    /\ completion' = Append(completion, t)

\* a client that merges what it has before every retry (C18 rejects it)
ReceiveMergingEach(t, o) ==
    /\ AllStarted
    /\ task[t].pc = "await"
    /\ \E r \in {RestOutcome(o)} :
       \E vep_info \in {Unwind(task[t].n429, r.val)} :
       \E tc \in {TranscriptConsequences(vep_info)} :
       \E maf \in {MinorAlleleFrequency(task[t].variant, vep_info)} :
       \E m \in {Merge(task[t].variant, vep_info, tc, maf)} :
           CASE r.act = "retry" ->
                  /\ task' = [task EXCEPT
                                ![t].pc = "retry_sleep",
                                ![t].variant =
                                    MergeAnnotations(@, EmptyDict).variant,
                                ![t].updates = Bump(@),
                                ![t].timer = r.delay,
                                ![t].response = o,
                                ![t].n429 = Count429(@, o),
                                ![t].throttled = task[t].url,
                                ![t].retry_after = o.retry_after.secs,
                                ![t].waited = 0]
                  /\ UNCHANGED << done_queue, completion >>
             [] r.act = "raise" -> Raised(t, o, r.exc)
             [] r.act = "return" /\ m.exc # "none" -> Raised(t, o, m.exc)
             [] OTHER ->
                  /\ task' = [task EXCEPT ![t].pc = "done",
                                          ![t].variant = m.variant,
                                          ![t].updates = Bump(@),
                                          ![t].response = o,
                                          ![t].n429 = Count429(@, o),
                                          ![t].retry_after = 0,
                                          ![t].waited = 0]
                  /\ done_queue' = Append(done_queue, t)
                  /\ completion' = Append(completion, t)
    /\ UNCHANGED << input, reqs_per_sec, process, limiter, annotated_variants, collected,
                    orch >>

\* the answer o arrives: the rest of perform_rest_action and, unless it
\* sleeps for a retry, the rest of update_variant_info
Receive(t, o) ==
    /\ AllStarted
    /\ task[t].pc = "await"
    /\ \E r \in {RestOutcome(o)} :
       \E vep_info \in {Unwind(task[t].n429, r.val)} :
       \E tc \in {TranscriptConsequences(vep_info)} :
       \E maf \in {MinorAlleleFrequency(task[t].variant, vep_info)} :
       \E m \in {Merge(task[t].variant, vep_info, tc, maf)} :
           CASE r.act = "retry" ->
                  /\ task' = [task EXCEPT
                                ![t].pc = "retry_sleep",
                                ![t].timer = r.delay,
                                ![t].response = o,
                                ![t].n429 = Count429(@, o),
                                ![t].throttled = task[t].url,
                                ![t].retry_after = o.retry_after.secs,
                                ![t].waited = 0]
                  /\ UNCHANGED << done_queue, completion >>
             [] r.act = "raise" -> Raised(t, o, r.exc)
             [] r.act = "return" /\ m.exc # "none" -> Raised(t, o, m.exc)
             [] OTHER ->
                  /\ task' = [task EXCEPT ![t].pc = "done",
                                          ![t].variant = m.variant,
                                          ![t].updates = Bump(@),
                                          ![t].response = o,
                                          ![t].n429 = Count429(@, o),
                                          ![t].retry_after = 0,
                                          ![t].waited = 0]
                  /\ done_queue' = Append(done_queue, t)
                  /\ completion' = Append(completion, t)
    /\ UNCHANGED << input, reqs_per_sec, process, limiter, annotated_variants, collected,
                    orch >>

\* a retry sent without asking the limiter again (C16 rejects it)
WakeRetryUnadmitted(t) ==
    /\ AllStarted
    /\ task[t].pc = "retry_sleep"
    /\ task[t].timer = 0
    /\ task' = [task EXCEPT ![t].pc = "await", ![t].sent = Bump(@)]
    /\ UNCHANGED << input, reqs_per_sec, process, limiter, batch >>

\* asyncio.sleep(float(retry)) returns: the recursive call
WakeRetry(t) ==
    /\ AllStarted
    /\ task[t].pc = "retry_sleep"
    /\ task[t].timer = 0
    /\ ApplyRateLimit(t, RetryArgs(task[t].args))
    /\ UNCHANGED << input, reqs_per_sec, process, batch >>

(***************************************************************************)
(* process_variants.                                                       *)
(***************************************************************************)
\* a reader whose failures are not noticed (C12 rejects it)
ReadableAlways == TRUE

\* line 64: the reader yields every record
Readable == reader = "ok"

\* lines 60-68: one coroutine per variant, handed to asyncio.as_completed
StartBatch ==
    /\ orch = "init"
    /\ main_pc = "run"
    /\ Readable
    /\ task' = [t \in Tasks |-> [task[t] EXCEPT !.pc = "created"]]
    /\ orch' = IF Tasks = {} THEN "returned" ELSE "collect"
    /\ UNCHANGED << input, reqs_per_sec, process, limiter, done_queue, annotated_variants,
                    collected, completion >>

\* a loop that takes the task finished last (C10 rejects it)
NextDoneLast(q) == q[Len(q)]

\* the future as_completed hands out next
NextDone(q) == Head(q)

\* a loop that ends after its first turn (C2 rejects it)
AllCollectedEarly(k) == k >= 1

\* the loop over as_completed(tasks) ends after len(tasks) futures
AllCollected(k) == k = Len(input)

\* lines 68-73: one turn of the loop
Collect ==
    /\ orch = "collect"
    /\ done_queue # <<>>
    /\ LET f == NextDone(done_queue)
       IN  /\ done_queue' = SelectSeq(done_queue, LAMBDA x : x # f)
           /\ IF task[f].pc = "done"
              THEN /\ annotated_variants' = Append(annotated_variants, task[f].variant)
                   /\ collected' = Append(collected, f)
                   /\ orch' = IF AllCollected(Len(collected) + 1)
                              THEN "returned" ELSE "collect"
              ELSE /\ orch' = "raised"
                   /\ UNCHANGED << annotated_variants, collected >>
    /\ UNCHANGED << input, reqs_per_sec, process, limiter, task, completion >>

Finished(t) == task[t].pc \in {"done", "raised", "cancelled"}

\* asyncio.run cancels what is left once process_variants has raised
CancelAll ==
    /\ orch = "raised"
    /\ \E t \in Tasks : ~Finished(t)
    /\ task' = [t \in Tasks |->
                  IF Finished(t) THEN task[t]
                  ELSE [NewTask(task[t].variant) EXCEPT !.pc = "cancelled"]]
    /\ lock_holder' = 0
    /\ waiters' = <<>>
    /\ UNCHANGED << input, reqs_per_sec, process, req_count, last_req_age, window, batch >>

(***************************************************************************)
(* Specifications.                                                         *)
(***************************************************************************)
RECURSIVE SumN429(_)
SumN429(n) == IF n = 0 THEN 0 ELSE task[n].n429 + SumN429(n - 1)
\* the 429 answers received so far, by all tasks
Throttles == SumN429(Len(input))

\* a 429 that is retried, while the server still throttles
Throttle(t) ==
    \E d \in DOMAIN Throttled : Throttles < Max429 /\ Receive(t, Throttled[d])

Respond(t) == \E i \in DOMAIN BatchOutcomes : Receive(t, BatchOutcomes[i])

Next ==
    \/ Tick
    \/ StartBatch
    \/ \E t \in Tasks : Start(t)
    \/ \E t \in Tasks : LockGranted(t)
    \/ \E t \in Tasks : WakeRateLimit(t)
    \/ \E t \in Tasks : WakeRetry(t)
    \/ \E t \in Tasks : Respond(t)
    \/ \E t \in Tasks : Throttle(t)
    \/ Collect
    \/ CancelAll

Spec == Init /\ [][Next]_vars


(***************************************************************************)
(* One call of update_variant_info, on a client that may have been used    *)
(* before and on a variant that may have been annotated before; the server *)
(* gives any answer.                                                       *)
(***************************************************************************)
ClientVariants ==
    SampleVariants \o [i \in DOMAIN SampleVariants |-> Annotated(SampleVariants[i])]

InitClient ==
    \E i \in DOMAIN ClientVariants :
        \E ceiling \in 1 .. MaxCeiling :
            \/ InitWith(<<ClientVariants[i]>>, ceiling, 0, TicksPerSec)
            \/ \E count \in 1 .. ceiling :
                   \E age \in 0 .. TicksPerSec :
                       InitWith(<<ClientVariants[i]>>, ceiling, count, age)

RespondAny(t) == \E i \in DOMAIN AllOutcomes : Receive(t, AllOutcomes[i])

NextClient ==
    \/ Tick
    \/ StartBatch
    \/ \E t \in Tasks : Start(t)
    \/ \E t \in Tasks : WakeRateLimit(t)
    \/ \E t \in Tasks : WakeRetry(t)
    \/ \E t \in Tasks : RespondAny(t)
    \/ \E t \in Tasks : Throttle(t)
    \/ Collect

ClientSpec == InitClient /\ [][NextClient]_vars

(***************************************************************************)
(* The batch under fair scheduling, with a server that may go on           *)
(* throttling: the counters of the tasks then stop at MaxCount.            *)
(***************************************************************************)
ThrottleOn(t) ==
    \E d \in DOMAIN Throttled : Throttles >= Max429 /\ Receive(t, Throttled[d])

NextLive ==
    \/ Next
    \/ \E t \in Tasks : ThrottleOn(t)

\* the coroutine of process_variants and what ends it
Orchestrate == StartBatch \/ Collect \/ CancelAll

\* the coroutine of task t: its own steps and the answers to its requests
Run(t) ==
    \/ Start(t)
    \/ LockGranted(t)
    \/ WakeRateLimit(t)
    \/ WakeRetry(t)
    \/ Respond(t)
    \/ Throttle(t)
    \/ ThrottleOn(t)

\* the event loop runs every coroutine that can run, timers expire, and every
\* request gets some answer
Fairness ==
    /\ WF_vars(Tick)
    /\ WF_vars(Orchestrate)
    /\ \A t \in 1 .. MaxN : WF_vars(t \in Tasks /\ Run(t))

LiveSpec == Init /\ [][NextLive]_vars /\ Fairness


(***************************************************************************)
(* The batch with a server that answers every request with a success or a  *)
(* failure that is not a throttle, after up to Max429 throttles.           *)
(***************************************************************************)
FailureOutcomes ==
    << Success(1), Http(400, NoHeader), Http(500, NoHeader), TransportFailure >>

RespondFailure(t) ==
    \E i \in DOMAIN FailureOutcomes : Receive(t, FailureOutcomes[i])

\* a 429 that asks for a retry at once, while the server still throttles
ThrottleNow(t) == Throttles < Max429 /\ Receive(t, Throttled[0])

NextFailures ==
    \/ Tick
    \/ StartBatch
    \/ \E t \in Tasks : Start(t)
    \/ \E t \in Tasks : LockGranted(t)
    \/ \E t \in Tasks : WakeRateLimit(t)
    \/ \E t \in Tasks : WakeRetry(t)
    \/ \E t \in Tasks : RespondFailure(t)
    \/ \E t \in Tasks : ThrottleNow(t)
    \/ Collect

FailureSpec == Init /\ [][NextFailures]_vars

(***************************************************************************)
(* main: the reader is opened, process_variants runs, the list is written  *)
(* and the process exits.                                                  *)
(***************************************************************************)
Exit(status) ==
    /\ main_pc' = "exited"
    /\ exit_status' = status

\* line 85: VcfReader(args.input_vcf); lines 90-91 when it raises
OpenReader ==
    /\ main_pc = "start"
    /\ IF reader = "unopenable"
       THEN Exit(1)
       ELSE main_pc' = "run" /\ UNCHANGED exit_status
    /\ UNCHANGED << input, reqs_per_sec, limiter, task, batch, reader, tsv >>

\* line 64: the reader raises while the list of coroutines is built; none of
\* them has been scheduled
ReadFails ==
    /\ main_pc = "run"
    /\ orch = "init"
    /\ ~Readable
    /\ orch' = "failed"
    /\ UNCHANGED << input, reqs_per_sec, limiter, task, done_queue,
                    annotated_variants, collected, completion, process >>

\* a main that reports success after an error (C11 rejects it)
ExitOnErrorQuietly ==
    /\ main_pc = "run"
    /\ \/ orch = "failed"
       \/ orch = "raised" /\ \A t \in Tasks : Finished(t)
    /\ Exit(0)
    /\ UNCHANGED << input, reqs_per_sec, limiter, task, batch, reader, tsv >>

\* lines 90-95: asyncio.run has raised what process_variants raised, after
\* cancelling the tasks left
ExitOnError ==
    /\ main_pc = "run"
    /\ \/ orch = "failed"
       \/ orch = "raised" /\ \A t \in Tasks : Finished(t)
    /\ Exit(1)
    /\ UNCHANGED << input, reqs_per_sec, limiter, task, batch, reader, tsv >>

\* csv.DictWriter with the keys of the first record as fieldnames raises
\* ValueError for a record with a key that is not among them
Writable(rows) == \A i \in DOMAIN rows : DOMAIN rows[i] \subseteq DOMAIN rows[1]

\* an output step that writes the file whatever the list holds (C13 rejects it)
WriteTsvAlways(opened) ==
    /\ main_pc = "run"
    /\ orch = "returned"
    /\ IF ~opened
       THEN tsv' = "failed" /\ Exit(1)
       ELSE IF ~Writable(annotated_variants)
       THEN tsv' = "partial" /\ Exit(1)
       ELSE tsv' = "written" /\ Exit(0)
    /\ UNCHANGED << input, reqs_per_sec, limiter, task, batch, reader >>

\* lines 87-88 and write_to_tsv; opened tells whether the file can be opened
\* and written
WriteTsv(opened) ==
    /\ main_pc = "run"
    /\ orch = "returned"
    /\ IF annotated_variants = <<>>
       THEN tsv' = "none" /\ Exit(0)
       ELSE IF ~opened
       THEN tsv' = "failed" /\ Exit(1)
       ELSE IF ~Writable(annotated_variants)
       THEN tsv' = "partial" /\ Exit(1)
       ELSE tsv' = "written" /\ Exit(0)
    /\ UNCHANGED << input, reqs_per_sec, limiter, task, batch, reader >>

InitMain ==
    \E n \in 0 .. MaxN :
        \E ceiling \in 1 .. MaxCeiling :
            \E kind \in {"ok", "unopenable", "broken"} :
                /\ ClientWith([i \in 1 .. n |-> Record(i)], ceiling, 0, TicksPerSec)
                /\ MainAt("start", kind)

NextMain ==
    \/ Next
    \/ OpenReader
    \/ ReadFails
    \/ ExitOnError
    \/ \E opened \in BOOLEAN : WriteTsv(opened)

MainSpec == InitMain /\ [][NextMain]_vars

(***************************************************************************)
(* Properties.                                                             *)
(***************************************************************************)
RECURSIVE SumWindow(_)
SumWindow(a) == IF a < 0 THEN 0 ELSE window[a] + SumWindow(a - 1)
\* admissions during the second that ends now
WindowCount == SumWindow(TicksPerSec - 1)

DoneTasks == {t \in Tasks : task[t].pc = "done"}

IsPrefix(p, q) == Len(p) <= Len(q) /\ \A i \in 1 .. Len(p) : p[i] = q[i]

Nulled(v) == \A f \in AnnotationFields : f \in DOMAIN v /\ v[f] = JNull

\* C1: at no time has the second that ends now seen more admissions than the
\* ceiling, that is, no one-second interval contains more than reqs_per_sec
\* returns of _apply_rate_limit.
RateCeiling == WindowCount <= reqs_per_sec

KeyFields(v) == << v["chrom"], v["pos"], v["ref"], v["alt"] >>
Bijections(n) ==
    {p \in [1 .. n -> 1 .. n] : \A i, j \in 1 .. n : p[i] = p[j] => i = j}

\* C2: when process_variants has returned, the result list has one entry per
\* input record and some one-to-one pairing of results and inputs agrees on
\* chrom, pos, ref and alt.
Completeness ==
    orch = "returned" =>
        /\ Len(annotated_variants) = Len(input)
        /\ \E p \in Bijections(Len(input)) :
               \A i \in 1 .. Len(input) :
                   KeyFields(annotated_variants[i]) = KeyFields(input[p[i]])

\* a batch of two that returned its results out of input order, one task
\* having been throttled, one answered 400 and one answered with a success
CompletenessWitness ==
    /\ orch = "returned"
    /\ Len(input) >= 2
    /\ collected[1] # 1
    /\ \E t \in Tasks : task[t].n429 >= 1
    /\ \E t \in Tasks : task[t].response.status = 400
    /\ \E t \in Tasks : task[t].response.status = 200

\* C3: no answer of the server makes update_variant_info raise: no task ever
\* ends with an exception.
FailureAbsorbed == \A t \in Tasks : task[t].pc # "raised"

\* C4: the request in flight after a 429 was sent when at least Retry-After
\* ticks had passed since that 429, and it has the url (endpoint and query
\* parameters) of the request the 429 answered.
RetryAfterHonored ==
    \A t \in Tasks :
        task[t].pc = "await" /\ task[t].n429 >= 1 =>
            /\ task[t].waited >= task[t].retry_after
            /\ task[t].url = task[t].throttled

\* a request re-issued after a 429 that asked for a wait
RetryAfterWitness ==
    \E t \in Tasks :
        /\ task[t].pc = "await"
        /\ task[t].n429 >= 1
        /\ task[t].sent = 2
        /\ task[t].retry_after >= 1
        /\ task[t].waited >= task[t].retry_after

\* the variant of Scenario A of the specification, fully annotated
FullyAnnotated(v) ==
    /\ v["gene_id"] = JStr("G1")
    /\ v["gene_symbol"] = JStr("GENE1")
    /\ v["biotype"] = JStr("protein_coding")
    /\ v["impact"] = JStr("MODERATE")
    /\ v["most_severe_consequence"] = JStr("missense_variant")
    /\ v["minor_allele_frequency"] = JNum("0.05")

\* C5: a task that got k >= 1 answers 429 and then an answer that is not a 429
\* has sent k + 1 requests and holds the record the last answer gives when it
\* is the first one: fully annotated after a full success.
ThrottlingInvisible ==
    \A t \in Tasks :
        task[t].pc = "done" /\ task[t].n429 >= 1 /\ task[t].response.status # 429 =>
            /\ task[t].sent = task[t].n429 + 1
            /\ task[t].variant =
                  MergeAnnotations(input[t], RestOutcome(task[t].response).val).variant
            /\ (task[t].response = Success(1) /\ input[t]["alt"] = JStr("T")
                   => FullyAnnotated(task[t].variant))

\* a task throttled once and then answered with the full success
ThrottlingWitness ==
    \E t \in Tasks :
        /\ task[t].pc = "done"
        /\ task[t].n429 >= 1
        /\ task[t].response = Success(1)
        /\ input[t]["alt"] = JStr("T")

\* C6: under fair scheduling and with an answer to every request,
\* process_variants eventually returns with every task completed.
BatchCompletion ==
    <>(orch = "returned" /\ \A t \in Tasks : task[t].pc = "done")

TerminalFailure(o) ==
    \/ o.kind = "transport"
    \/ o.kind = "http" /\ o.status >= 400 /\ o.status # 429

\* C7: a task answered with 400, with another status from 400 on that is not
\* 429, or with a transport failure is finished without an exception, has sent
\* nothing after that answer and holds its record with the six annotation
\* fields null; the step in which the answer arrives leaves every other task
\* as it is, and the batch is not aborted.
FailureIsTerminal ==
    /\ [](\A t \in Tasks :
              TerminalFailure(task[t].response) =>
                  /\ task[t].pc = "done"
                  /\ task[t].sent = task[t].n429 + 1
                  /\ Nulled(task[t].variant)
                  /\ KeyFields(task[t].variant) = KeyFields(input[t])
                  /\ orch # "raised")
    /\ [][\A t \in Tasks :
              task'[t].response # task[t].response
              /\ TerminalFailure(task'[t].response) =>
                  \A u \in Tasks \ {t} : task'[u] = task[u]]_vars

\* a batch that returned both records: the first task was answered 400 while
\* the second was still waiting for its answer, which then was a success
FailureWitness ==
    /\ orch = "returned"
    /\ completion = <<1, 2>>
    /\ task[1].response.status = 400
    /\ task[2].response = Success(1)
    /\ Nulled(annotated_variants[1])
    /\ ~Nulled(annotated_variants[2])

Strip(v) == [k \in DOMAIN v \ AnnotationFields |-> v[k]]

\* C8: update_variant_info on a record that carries the six annotation fields
\* returns a record with the same keys whose annotation fields are those the
\* response gives to a record that never had them; none keeps its old value.
IdempotentMerge ==
    \A t \in Tasks :
        task[t].pc = "done" /\ AnnotationFields \subseteq DOMAIN input[t] =>
            LET vep == RestOutcome(task[t].response).val
                fresh == MergeAnnotations(Strip(input[t]), vep).variant
            IN  /\ DOMAIN task[t].variant = DOMAIN input[t]
                /\ \A f \in AnnotationFields :
                       /\ task[t].variant[f] = fresh[f]
                       /\ task[t].variant[f] # input[t][f]
                /\ Strip(task[t].variant) = Strip(input[t])

\* an annotated record merged with a response that has only some fields
IdempotentWitness ==
    \E t \in Tasks :
        /\ task[t].pc = "done"
        /\ AnnotationFields \subseteq DOMAIN input[t]
        /\ task[t].response = Success(5)
        /\ task[t].variant["gene_id"] = JStr("G2")
        /\ task[t].variant["gene_symbol"] = JNull
        /\ task[t].variant["minor_allele_frequency"] = JNull

IsDict(x) == x.t = "dict"
IsList(x) == x.t = "list"
Has(d, k) == k \in DOMAIN d.v
AllDicts(l) == IsList(l) /\ \A i \in DOMAIN l.v : IsDict(l.v[i])

\* an object of the shape the service documents: arrays of objects, and
\* frequencies an object of objects
Conforms(e) ==
    /\ IsDict(e)
    /\ Has(e, "transcript_consequences") => AllDicts(e.v["transcript_consequences"])
    /\ Has(e, "colocated_variants") =>
           /\ AllDicts(e.v["colocated_variants"])
           /\ \A i \in DOMAIN e.v["colocated_variants"].v :
                  LET c == e.v["colocated_variants"].v[i]
                  IN  Has(c, "frequencies") =>
                          /\ IsDict(c.v["frequencies"])
                          /\ \A a \in DOMAIN c.v["frequencies"].v :
                                 IsDict(c.v["frequencies"].v[a])

SchemaResponse(o) ==
    /\ o.kind = "http"
    /\ o.status = 200
    /\ o.wellformed
    /\ IsList(o.body)
    /\ Len(o.body.v) >= 1
    /\ Conforms(o.body.v[1])

LacksTc(e) ==
    \/ ~Has(e, "transcript_consequences")
    \/ Len(e.v["transcript_consequences"].v) = 0

LastColocated(e) ==
    e.v["colocated_variants"].v[Len(e.v["colocated_variants"].v)]

LacksMaf(e, alt) ==
    \/ ~Has(e, "colocated_variants")
    \/ Len(e.v["colocated_variants"].v) = 0
    \/ ~Has(LastColocated(e), "frequencies")
    \/ ~Has(LastColocated(e).v["frequencies"], alt)
    \/ ~Has(LastColocated(e).v["frequencies"].v[alt], "af")

FieldOf(d, k) == IF Has(d, k) THEN d.v[k] ELSE JNull

CompletionOrder ==
    /\ [](/\ Len(annotated_variants) = Len(collected)
          /\ IsPrefix(collected, completion)
          /\ \A i \in DOMAIN collected :
                 annotated_variants[i] = task[collected[i]].variant
          /\ Len(annotated_variants) <= Cardinality(DoneTasks)
          /\ (orch = "returned" =>
                  /\ Len(annotated_variants) = Cardinality(DoneTasks)
                  /\ collected = completion))
    /\ [][\/ annotated_variants' = annotated_variants
          \/ \E t \in DoneTasks :
                 annotated_variants' = Append(annotated_variants, task[t].variant)
      ]_vars

\* the second task finished first and the list returned has its record first
CompletionWitness ==
    /\ orch = "returned"
    /\ completion = <<2, 1>>
    /\ collected = <<2, 1>>
    /\ KeyFields(annotated_variants[1]) = KeyFields(input[2])

\* the statement of C10 on the length: at every point the list is as long as
\* the number of completed tasks
LengthIsCompleted == Len(annotated_variants) = Cardinality(DoneTasks)

\* C11: once a task has raised, process_variants does not return a list,
\* nothing is written and the process does not exit with status 0; the process
\* exits with status 0 only after process_variants returned with every task
\* completed and the output step did not fail.
AbortOnTaskError ==
    /\ (\E t \in Tasks : task[t].pc = "raised") =>
           /\ orch # "returned"
           /\ tsv = "none"
           /\ exit_status # 0
           /\ (main_pc = "exited" => exit_status = 1)
    /\ exit_status = 0 =>
           /\ orch = "returned"
           /\ \A t \in Tasks : task[t].pc = "done"
           /\ tsv \in {"none", "written"}
           /\ (tsv = "none" <=> annotated_variants = <<>>)

\* the process exited with status 1 after one task raised, although the
\* record of another task was in the list already; nothing was written
AbortWitness ==
    /\ main_pc = "exited"
    /\ exit_status = 1
    /\ \E t \in Tasks : task[t].pc = "raised"
    /\ annotated_variants # <<>>
    /\ tsv = "none"

\* C12: with an input file that cannot be opened or fails while it is read,
\* no task is ever created, no request is sent and no slot of the limiter is
\* reserved, and the process exits with status 1 if it exits; in general, a
\* request has been sent or a slot reserved only when the whole input has been
\* read and every record has its task.
InputErrorsFirst ==
    /\ reader # "ok" =>
           /\ \A t \in Tasks :
                  task[t].pc = "none" /\ task[t].sent = 0 /\ task[t].admitted = 0
           /\ req_count = 0
           /\ WindowCount = 0
           /\ lock_holder = 0
           /\ (main_pc = "exited" => exit_status = 1)
    /\ (req_count > 0 \/ \E t \in Tasks : task[t].sent > 0 \/ task[t].admitted > 0) =>
           /\ reader = "ok"
           /\ orch # "init"
           /\ DOMAIN task = DOMAIN input
           /\ \A t \in Tasks : task[t].pc # "none"

\* a file that failed after its first records: the process exited with 1
InputErrorWitness ==
    /\ reader = "broken"
    /\ Len(input) >= 1
    /\ orch = "failed"
    /\ main_pc = "exited"
    /\ exit_status = 1

\* C13: on a readable input without records no slot of the limiter is
\* reserved and no request sent, process_variants returns the empty list,
\* nothing is written, and the process exits with status 0 if it exits.
EmptyInput ==
    reader = "ok" /\ input = <<>> =>
        /\ req_count = 0
        /\ WindowCount = 0
        /\ Tasks = {}
        /\ orch \in {"init", "returned"}
        /\ annotated_variants = <<>>
        /\ tsv = "none"
        /\ (main_pc = "exited" => orch = "returned" /\ exit_status = 0)

\* the run on an empty input has ended
EmptyInputWitness ==
    /\ reader = "ok"
    /\ input = <<>>
    /\ orch = "returned"
    /\ main_pc = "exited"
    /\ exit_status = 0

\* the tasks inside lines 89-95, between the test of req_count and the
\* increment: those suspended at line 92 (a task that does not sleep passes
\* through the section in one step)
InSection == {t \in Tasks : task[t].pc = "rl_sleep"}

\* C14: at most one task is inside the section of _apply_rate_limit, and it
\* holds the lock; while a task stays suspended inside, req_count does not
\* change and no reset happens; when it leaves by its admission, the reset and
\* the increment are its own; and every change of req_count comes with the
\* admission of exactly one task.
MutualExclusion ==
    /\ [](/\ Cardinality(InSection) <= 1
          /\ \A t \in Tasks : task[t].pc = "rl_sleep" <=> lock_holder = t
          /\ (lock_holder = 0 \/ lock_holder \in Tasks)
          /\ \A i \in DOMAIN waiters : task[waiters[i]].pc = "lock_wait")
    /\ [][/\ \A t \in InSection :
                 /\ task'[t].pc = "rl_sleep" =>
                        /\ req_count' = req_count
                        /\ last_req_age' >= last_req_age
                        /\ window'[0] <= window[0]
                        /\ lock_holder' = t
                 /\ task'[t].pc = "await" =>
                        /\ req_count' = 1
                        /\ last_req_age' = 0
                        /\ \A u \in Tasks \ {t} : task'[u] = task[u]
          /\ req_count' # req_count =>
                 Cardinality({t \in Tasks : task'[t].admitted # task[t].admitted}) = 1
      ]_vars

\* one task sleeps inside the section while another waits for the lock
ExclusionWitness ==
    \E t, u \in Tasks :
        /\ task[t].pc = "rl_sleep"
        /\ task[u].pc = "lock_wait"
        /\ lock_holder = t
        /\ waiters = <<u>>

\* a step in which some call of _apply_rate_limit returns
Admission == \E t \in Tasks : task'[t].admitted > task[t].admitted

\* C15: the admissions since the last reset, the one that reset included, are
\* at most reqs_per_sec; an admission that does not raise the counter is a
\* reset, and it happens only a full second or more after the reset before
\* (after the construction of the client, for the first one), leaving the
\* counter at 1; a caller that finds the counter at the ceiling earlier is
\* suspended for what is left of that second, and resets when it wakes.
FixedWindow ==
    /\ [](/\ req_count <= reqs_per_sec
          /\ \A t \in Tasks :
                 task[t].pc = "rl_sleep" =>
                     /\ req_count >= reqs_per_sec
                     /\ task[t].timer + last_req_age = TicksPerSec)
    /\ [][/\ Admission /\ req_count' <= req_count =>
                 /\ last_req_age = TicksPerSec
                 /\ last_req_age' = 0
                 /\ req_count' = 1
          /\ Admission /\ req_count' > req_count =>
                 /\ req_count' = req_count + 1
                 /\ last_req_age' = last_req_age
          /\ \A t \in Tasks :
                 task[t].pc = "rl_sleep" /\ task'[t].pc = "await" =>
                     task[t].timer = 0 /\ last_req_age' = 0
          /\ \A t \in Tasks :
                 task[t].pc # "rl_sleep" /\ task'[t].pc = "rl_sleep" =>
                     /\ last_req_age < TicksPerSec
                     /\ task'[t].timer = TicksPerSec - last_req_age
                     /\ ~Admission
      ]_vars

\* a caller suspended inside the limiter for the rest of the second in which
\* reqs_per_sec calls were admitted since the reset
FixedWindowWitness ==
    \E t \in Tasks :
        /\ task[t].pc = "rl_sleep"
        /\ task[t].timer >= 1
        /\ req_count = reqs_per_sec
        /\ last_req_age < TicksPerSec
        /\ task[t].admitted >= 1

\* C16: a task has never sent more requests than calls of _apply_rate_limit
\* have returned to it, and a task waiting for an answer has sent one; every
\* step that sends a request, the first or a retry, is the return of a call
\* of _apply_rate_limit made for it, which takes a new slot: one more
\* admission of the task, one more admission in the current window, and a
\* counter raised by one or reset to 1.
AdmittedFirst ==
    /\ [](\A t \in Tasks :
              /\ task[t].sent <= task[t].admitted
              /\ (task[t].pc = "await" => task[t].sent >= 1)
              /\ (task[t].pc \in {"await", "retry_sleep", "done", "raised"} =>
                      task[t].sent \in {task[t].n429, task[t].n429 + 1}))
    /\ [][\A t \in Tasks :
              task'[t].sent > task[t].sent =>
                  /\ task'[t].sent = task[t].sent + 1
                  /\ task'[t].admitted = task[t].admitted + 1
                  /\ window'[0] = window[0] + 1
                  /\ \/ req_count' = req_count + 1
                     \/ req_count' = 1 /\ last_req_age' = 0
                  /\ \A u \in Tasks \ {t} : task'[u].sent = task[u].sent
      ]_vars

\* the retry after a 429 is in flight: two requests sent, two slots taken
AdmittedWitness ==
    \E t \in Tasks :
        /\ task[t].pc = "await"
        /\ task[t].n429 = 1
        /\ task[t].sent = 2
        /\ task[t].admitted = 2

\* task t is inside a call of _apply_rate_limit that has not returned
InLimiter(t) == t \in Tasks /\ task[t].pc \in {"lock_wait", "rl_sleep"}

\* C17: under fair scheduling every call of _apply_rate_limit returns: a task
\* that waits for the lock or sleeps inside the limiter eventually has its
\* request in flight.
AdmitReturns ==
    \A t \in 1 .. MaxN : InLimiter(t) ~> (t \in Tasks /\ task[t].pc = "await")

\* what holds of the limiter under fair scheduling: a call returns unless the
\* batch is aborted first and its task cancelled, and the lock is held by a
\* sleeping task for a second at most
AdmitReturnsOrCancelled ==
    /\ \A t \in 1 .. MaxN :
           InLimiter(t) ~> (t \in Tasks /\ task[t].pc \in {"await", "cancelled"})
    /\ [](\A t \in Tasks : task[t].pc = "rl_sleep" => task[t].timer <= TicksPerSec)

MergeFrame ==
    /\ [](\A t \in Tasks :
              /\ DOMAIN task[t].variant \subseteq DOMAIN input[t] \cup AnnotationFields
              /\ \A k \in DOMAIN input[t] \ AnnotationFields :
                     k \in DOMAIN task[t].variant /\ task[t].variant[k] = input[t][k])
    /\ [][/\ (\E t \in Tasks : task'[t].response # task[t].response) =>
                 UNCHANGED << req_count, last_req_age, lock_holder, waiters, window >>
          /\ req_count' # req_count => Admission
      ]_vars

\* a record with read counts, merged with the full success: the annotation
\* fields are set and the read counts are those of the input
MergeFrameWitness ==
    \E t \in Tasks :
        /\ task[t].pc = "done"
        /\ task[t].response = Success(1)
        /\ "num_reads" \in DOMAIN input[t]
        /\ task[t].variant["num_reads"] = JNum("10")
        /\ task[t].variant["hgvs"] = input[t]["hgvs"]
        /\ task[t].variant["gene_id"] = JStr("G1")

\* C20: req_count is a number from 0 to reqs_per_sec in every state; it
\* changes only at an admission, to 1 when the admission reset the limiter
\* and by exactly 1 otherwise; last_req changes only at a reset, which sets it
\* to the current time, so the time elapsed since last_req falls only to 0 and
\* only at a reset, and otherwise stays or grows with the clock.
CounterBounds ==
    /\ [](/\ reqs_per_sec >= 1
          /\ req_count \in 0 .. reqs_per_sec
          /\ last_req_age \in 0 .. TicksPerSec)
    /\ [][/\ req_count' # req_count \/ last_req_age' < last_req_age => Admission
          /\ Admission =>
                 \/ /\ req_count >= reqs_per_sec
                    /\ req_count' = 1
                    /\ last_req_age' = 0
                 \/ /\ req_count < reqs_per_sec
                    /\ req_count' = req_count + 1
                    /\ last_req_age' = last_req_age
          /\ ~Admission =>
                 last_req_age' \in {last_req_age, Min(last_req_age + 1, TicksPerSec)}
      ]_vars

\* the limiter after a reset made by the second admission of a task: the
\* counter is back at 1
CounterWitness ==
    /\ req_count = 1
    /\ last_req_age = 0
    /\ \E t \in Tasks : task[t].pc = "await" /\ task[t].admitted = 2
    /\ \E t \in Tasks : task[t].admitted = 1

====
